---- MODULE Spec2Model ----
(***************************************************************************)
(* Turn engines of the three games of the repository:                      *)
(*   TicTacToe/tictactoe.py      the 3x3 game                              *)
(*   Reversi/reversi.py          the 8x8 reversible-capture game           *)
(*   Kirzhanovsky/kirzhanovsky.py the simultaneous numeric game            *)
(* One behaviour of Spec is one call of Game.play() of one of the games;   *)
(* the variable game says which.  SpecFn applies the pure functions        *)
(* (get_winner, _find_winner) to inputs drawn from bounded sets.           *)
(*                                                                         *)
(* Conventions.  Enum members are modelled by their .value (EMPTY = 0,     *)
(* X = BLACK = 1, O = WHITE = 2, DRAW = 3).  Python's None in the winner   *)
(* field and the False returned by get_winner are both modelled by         *)
(* None = 0.  Players of the numeric game are numbered 1..n (player_id+1). *)
(* Board rows and columns keep the 0-based indices of the source.          *)
(***************************************************************************)
EXTENDS Integers, Sequences, FiniteSets, TLC

VARIABLES
    game,          \* which program runs: "TicTacToe", "Reversi", "Kirzhanovsky"
    pc,            \* position of play() in its code
    board,         \* Game.board.board (alternating games)
    current_move,  \* Game.current_move (alternating games)
    move_counter,  \* Game.move_counter (alternating games)
    winner,        \* Game.winner
    try_index,     \* local try_index of _make_one_move / _safe_move
    history,       \* Game.history (numeric game)
    move_number,   \* Game.move_number (numeric game)
    moves,         \* the list being built by the comprehension of _make_one_move
    scores,        \* local scores of the last _find_winner call
    repertoire,    \* cells the bots of this match answer with (Reversi)
    bots,          \* the players of the match that are instances of Bot
    battle,        \* the Battle object of battle.py that runs the games
    calls,         \* number of calls of player.move made for the current turn
    turn_board,    \* the board when the current turn started
    outcome,       \* what the last step of the engine did
    abandoned,     \* a call given up by _safe_run is still running in its thread
    move_from      \* the call that produced the local move of the last attempt

vars == <<game, pc, board, current_move, move_counter, winner, try_index,
          history, move_number, moves, scores, repertoire, bots, battle,
          calls, turn_board, outcome, abandoned, move_from>>

altVars == <<board, current_move, move_counter, turn_board>>
kirVars == <<history, move_number, moves, scores>>
conVars == <<abandoned, move_from>>

(***************************************************************************)
(* Program constants                                                       *)
(***************************************************************************)
INCORRECT_MOVE_TRIES_LIMIT == 5
BOT_MOVE_TIMEOUT == 3
EMPTY == 0
X == 1
O == 2
BLACK == 1
WHITE == 2
DRAW == 3
None == 0
FORFEIT == 0 - 1

(***************************************************************************)
(* Bounds of the model                                                     *)
(***************************************************************************)
\* number of players handed to the numeric Game
NumPlayers == 2
\* Game.ROUNDS_IN_GAME, scaled down as kirzhanovsky.py:212 does for debugging
ROUNDS_IN_GAME == 1
\* players and largest value of the rounds drawn for _find_winner in SpecFn
FnPlayers == 3
FnMaxValue == 5
\* bots loaded into the tournament of the 3x3 game, and the rounds of
\* fight(rounds) in both tournaments
BattlePlayers == 3
BattleRounds == 2

\* the second loop of play() is followed for one tie-break round
MaxRounds == ROUNDS_IN_GAME + 1

\* PlayerType.inverse / BoardCell.inverse on an owned value
\* faulty variant of inverse(): the same side
Inverse_same(p) == p
Inverse(p) == 3 - p

(***************************************************************************)
(* What a call of player.move, run through _safe_run, can produce          *)
(*   Move        Move(row, column) with integer coordinates                *)
(*   MoveNonInt  Move(row, column) whose coordinates are not integers      *)
(*   Other       a returned object that is not a Move                      *)
(*   Raise       player.move raised an exception                           *)
(*   Timeout     async_result.get timed out, _safe_run returned None       *)
(***************************************************************************)
Resp(k, r, c) == [kind |-> k, row |-> r, column |-> c]
NonMoveResponses == {Resp(k, 0, 0) : k \in {"MoveNonInt", "Other", "Raise", "Timeout"}}

\* what ConsolePlayer.move can do: return the integers read from input(),
\* raise the error of input(), or take longer than any budget
Console_Responses(responses) ==
    {r \in responses : r.kind \in {"Move", "Int", "Raise", "Timeout"}}
Player_Responses(is_bot, responses) ==
    IF is_bot THEN responses ELSE Console_Responses(responses)

\* faulty variant of the choice of the timeout: the budget for every player
Timeout_of_any_player(is_bot) == BOT_MOVE_TIMEOUT
\* timeout = self.BOT_MOVE_TIMEOUT if isinstance(player, Bot) else None
Timeout_of(is_bot) == IF is_bot THEN BOT_MOVE_TIMEOUT ELSE None

\* how async_result.get(timeout) can end for a player that behaves as one of
\* behaviours: without a timeout it blocks until the player has answered,
\* and TimeoutError is not raised
Awaited(timeout, behaviours) ==
    IF timeout = None
    THEN {r \in behaviours : r.kind # "Timeout"}
    ELSE behaviours

\* result of apply_move: the exception raised (or "none") and the board left behind
Applied(e, why, b) == [exc |-> e, reason |-> why, board |-> b]

(***************************************************************************)
(* TicTacToe/tictactoe.py : GameBoard                                      *)
(***************************************************************************)
TTT_size == 3
TTT_Idx == 0..(TTT_size - 1)
TTT_GameBoard == [r \in TTT_Idx |-> [c \in TTT_Idx |-> EMPTY]]

\* faulty variant of apply_move without the test of the target cell
TTT_apply_move_overwrite(b, player_type, move) ==
    IF move.kind = "MoveNonInt"
    THEN Applied("TypeError", "coordinates are not integers", b)
    ELSE IF move.row < 0 \/ move.row >= TTT_size \/ move.column < 0 \/ move.column >= TTT_size
    THEN Applied("IncorrectMove", "coordinates", b)
    ELSE Applied("none", "", [b EXCEPT ![move.row][move.column] = player_type])
TTT_apply_move(b, player_type, move) ==
    IF move.kind = "MoveNonInt"
    THEN Applied("TypeError", "coordinates are not integers", b)
    ELSE IF move.row < 0 \/ move.row >= TTT_size \/ move.column < 0 \/ move.column >= TTT_size
    THEN Applied("IncorrectMove", "coordinates", b)
    ELSE IF b[move.row][move.column] # EMPTY
    THEN Applied("IncorrectMove", "occupied", b)
    ELSE Applied("none", "", [b EXCEPT ![move.row][move.column] = player_type])

\* faulty variant of is_full: only the first row is looked at
TTT_is_full_first_row(b) == \A c \in TTT_Idx : b[0][c] # EMPTY
TTT_is_full(b) == \A r \in TTT_Idx : \A c \in TTT_Idx : b[r][c] # EMPTY

TTT_is_cells_full_by_player(cells) ==
    LET elements == {cells[i] : i \in DOMAIN cells}
    IN  IF Cardinality(elements) # 1
        THEN None
        ELSE LET e == CHOOSE x \in elements : TRUE
             IN  IF e # EMPTY THEN e ELSE None

TTT_get_column(b, column_id) == [i \in 1..TTT_size |-> b[i - 1][column_id]]
TTT_get_row(b, row_id) == [i \in 1..TTT_size |-> b[row_id][i - 1]]

\* the lines in the order get_winner scans them: rows, columns, two diagonals
TTT_lines(b) ==
    [i \in 1..TTT_size |-> TTT_get_row(b, i - 1)]
    \o [i \in 1..TTT_size |-> TTT_get_column(b, i - 1)]
    \o << <<b[0][0], b[1][1], b[2][2]>>, <<b[0][2], b[1][1], b[2][0]>> >>

RECURSIVE TTT_first_winner(_, _)
TTT_first_winner(lines, i) ==
    IF i > Len(lines)
    THEN None
    ELSE LET w == TTT_is_cells_full_by_player(lines[i])
         IN  IF w # None THEN w ELSE TTT_first_winner(lines, i + 1)

\* faulty variant of get_winner: the lines are never looked at
TTT_get_winner_full_only(b) == IF TTT_is_full(b) THEN DRAW ELSE None
TTT_get_winner(b) ==
    IF TTT_is_full(b)
    THEN DRAW
    ELSE TTT_first_winner(TTT_lines(b), 1)

\* the responses the players of the 3x3 game are drawn from
TTT_Responses ==
    {Resp("Move", r, c) : r \in (0 - 1)..TTT_size, c \in (0 - 1)..TTT_size}
    \cup NonMoveResponses

(***************************************************************************)
(* Reversi/reversi.py : GameBoard                                          *)
(***************************************************************************)
Rev_size == 8
Rev_Idx == 0..(Rev_size - 1)
Rev_GameBoard ==
    [r \in Rev_Idx |-> [c \in Rev_Idx |->
        IF <<r, c>> \in {<<3, 4>>, <<4, 3>>} THEN BLACK
        ELSE IF <<r, c>> \in {<<3, 3>>, <<4, 4>>} THEN WHITE
        ELSE EMPTY]]

Rev_is_valid_coordinates(row, column) ==
    0 <= row /\ row < Rev_size /\ 0 <= column /\ column < Rev_size

Rev_directions ==
    << <<0, 1>>, <<0, 0 - 1>>, <<1, 0>>, <<0 - 1, 0>>,
       <<1, 1>>, <<1, 0 - 1>>, <<0 - 1, 1>>, <<0 - 1, 0 - 1>> >>

\* the while loop of _get_flipped_cells_for_move: it stops on a cell of the
\* mover or on the board edge, and collects every other cell it walks over
RECURSIVE Rev_scan(_, _, _, _, _, _)
Rev_scan(b, x, y, d, board_cell, flipped_in_direction) ==
    IF ~Rev_is_valid_coordinates(x, y)
    THEN <<>>
    ELSE IF b[x][y] = board_cell
    THEN flipped_in_direction
    ELSE Rev_scan(b, x + d[1], y + d[2], d, board_cell,
                  Append(flipped_in_direction, <<x, y>>))

Rev_flipped_in_direction(b, row, column, d, board_cell) ==
    LET x == row + d[1]
        y == column + d[2]
    IN  IF ~Rev_is_valid_coordinates(x, y)
        THEN <<>>
        ELSE IF b[x][y] = EMPTY \/ b[x][y] = board_cell
        THEN <<>>
        ELSE Rev_scan(b, x, y, d, board_cell, <<>>)

RECURSIVE Rev_flipped_from(_, _, _, _, _)
Rev_flipped_from(b, row, column, board_cell, i) ==
    IF i > Len(Rev_directions)
    THEN <<>>
    ELSE Rev_flipped_in_direction(b, row, column, Rev_directions[i], board_cell)
         \o Rev_flipped_from(b, row, column, board_cell, i + 1)

\* the list flipped_cells, in the order the code builds it
Rev_get_flipped_cells_for_move(b, row, column, board_cell) ==
    Rev_flipped_from(b, row, column, board_cell, 1)

Rev_is_valid_move(b, row, column, board_cell) ==
    Len(Rev_get_flipped_cells_for_move(b, row, column, board_cell)) > 0

\* the for loop of apply_move: BoardCell.inverse() of an EMPTY cell is
\* BoardCell(3), which raises ValueError and leaves the earlier flips in place
RECURSIVE Rev_flip_cells(_, _, _)
Rev_flip_cells(b, flipped_cells, i) ==
    IF i > Len(flipped_cells)
    THEN Applied("none", "", b)
    ELSE LET fx == flipped_cells[i][1]
             fy == flipped_cells[i][2]
         IN  IF b[fx][fy] = EMPTY
             THEN Applied("ValueError", "3 is not a valid BoardCell", b)
             ELSE Rev_flip_cells([b EXCEPT ![fx][fy] = Inverse(b[fx][fy])],
                                 flipped_cells, i + 1)

\* faulty variant of apply_move without the for loop over flipped_cells
Rev_apply_move_no_flip(b, player_type, move) ==
    IF move.kind = "MoveNonInt"
    THEN Applied("TypeError", "coordinates are not integers", b)
    ELSE IF ~Rev_is_valid_coordinates(move.row, move.column)
    THEN Applied("IncorrectMove", "coordinates", b)
    ELSE IF b[move.row][move.column] # EMPTY
    THEN Applied("IncorrectMove", "occupied", b)
    ELSE IF ~Rev_is_valid_move(b, move.row, move.column, player_type)
    THEN Applied("IncorrectMove", "no flips", b)
    ELSE Applied("none", "", [b EXCEPT ![move.row][move.column] = player_type])
Rev_apply_move(b, player_type, move) ==
    IF move.kind = "MoveNonInt"
    THEN Applied("TypeError", "coordinates are not integers", b)
    ELSE IF ~Rev_is_valid_coordinates(move.row, move.column)
    THEN Applied("IncorrectMove", "coordinates", b)
    ELSE IF b[move.row][move.column] # EMPTY
    THEN Applied("IncorrectMove", "occupied", b)
    ELSE IF ~Rev_is_valid_move(b, move.row, move.column, player_type)
    THEN Applied("IncorrectMove", "no flips", b)
    ELSE Rev_flip_cells([b EXCEPT ![move.row][move.column] = player_type],
                        Rev_get_flipped_cells_for_move(b, move.row, move.column, player_type),
                        1)

Rev_has_player_correct_move(b, player) ==
    \E row \in Rev_Idx : \E column \in Rev_Idx :
        b[row][column] = EMPTY /\ Rev_is_valid_move(b, row, column, player)

Rev_has_anybody_correct_move(b) ==
    Rev_has_player_correct_move(b, BLACK) \/ Rev_has_player_correct_move(b, WHITE)

Rev_count(b, cell) ==
    Cardinality({rc \in Rev_Idx \X Rev_Idx : b[rc[1]][rc[2]] = cell})

Rev_get_winner(b) ==
    IF Rev_has_anybody_correct_move(b)
    THEN None
    ELSE LET black_count == Rev_count(b, BLACK)
             white_count == Rev_count(b, WHITE)
         IN  IF black_count > white_count THEN BLACK
             ELSE IF white_count > black_count THEN WHITE
             ELSE DRAW

\* Cells the bots of one Reversi match answer with.  Two families keep the
\* reachable boards few and still reach a pass (PassCells), a finished
\* board and a capture across a gap (WipeoutCells).
PassCells ==
    {<<2, 3>>, <<2, 2>>, <<4, 5>>, <<1, 3>>, <<0, 3>>, <<0, 4>>, <<2, 1>>, <<0, 2>>}
WipeoutCells ==
    {<<4, 5>>, <<5, 3>>, <<4, 2>>, <<3, 5>>, <<6, 4>>, <<5, 5>>, <<4, 6>>, <<5, 4>>, <<2, 4>>}
GapCells ==
    {<<4, 5>>, <<5, 3>>, <<3, 2>>, <<2, 3>>, <<1, 2>>, <<2, 1>>, <<6, 3>>, <<0, 3>>,
     <<1, 0>>, <<3, 0>>, <<0, 1>>, <<5, 4>>, <<6, 4>>, <<6, 5>>, <<7, 6>>}
Repertoires == {PassCells, WipeoutCells, GapCells}

\* the responses the players of one Reversi match are drawn from: the cells
\* of the repertoire, an occupied centre cell, two cells off the board
Rev_Responses(cells) ==
    {Resp("Move", rc[1], rc[2]) :
        rc \in cells \cup {<<3, 3>>, <<0 - 1, 0>>, <<0, Rev_size>>}}
    \cup NonMoveResponses

(***************************************************************************)
(* Kirzhanovsky/kirzhanovsky.py : scoring                                  *)
(***************************************************************************)
\* round.count(x)
Kir_count(round, x) == Cardinality({i \in DOMAIN round : round[i] = x})

\* sorted(enumerate(round), key=operator.itemgetter(1)): a stable insertion
\* of the pairs <<player_id, player_move>> by player_move
RECURSIVE Kir_insert(_, _)
Kir_insert(sorted, e) ==
    IF sorted = <<>>
    THEN <<e>>
    ELSE IF e[2] < Head(sorted)[2]
    THEN <<e>> \o sorted
    ELSE <<Head(sorted)>> \o Kir_insert(Tail(sorted), e)

RECURSIVE Kir_sorted_from(_, _)
Kir_sorted_from(round, i) ==
    IF i = 0
    THEN <<>>
    ELSE Kir_insert(Kir_sorted_from(round, i - 1), <<i, round[i]>>)

\* faulty variant of the sort: the pairs stay in submission order
Kir_sorted_unsorted(round) == [i \in 1..Len(round) |-> <<i, round[i]>>]
Kir_sorted(round) == Kir_sorted_from(round, Len(round))

\* the inner for loop of _find_winner: the first pair, in sorted order, whose
\* move occurs once; <<0, 0>> when the loop ends without break
RECURSIVE Kir_first_unique(_, _, _)
Kir_first_unique(round, pairs, i) ==
    IF i > Len(pairs)
    THEN <<0, 0>>
    ELSE IF Kir_count(round, pairs[i][2]) = 1
    THEN pairs[i]
    ELSE Kir_first_unique(round, pairs, i + 1)

\* what one round adds to scores
Kir_round_scores(round, n) ==
    LET w == Kir_first_unique(round, Kir_sorted(round), 1)
    IN  [p \in 1..n |-> IF p = w[1] THEN w[2] ELSE 0]

RECURSIVE Kir_scores(_, _, _)
Kir_scores(h, n, i) ==
    IF i = 0
    THEN [p \in 1..n |-> 0]
    ELSE LET before == Kir_scores(h, n, i - 1)
             add == Kir_round_scores(h[i], n)
         IN  [p \in 1..n |-> before[p] + add[p]]

Kir_max(sc) == CHOOSE m \in {sc[p] : p \in DOMAIN sc} : \A p \in DOMAIN sc : sc[p] <= m

\* _find_winner: found is its return value, winner the player it stores
Kir_find_winner(h, n) ==
    LET sc == Kir_scores(h, n, Len(h))
        max_score == Kir_max(sc)
        best_players == {p \in 1..n : sc[p] = max_score}
    IN  IF Cardinality(best_players) # 1
        THEN [found |-> FALSE, winner |-> None, scores |-> sc]
        ELSE [found |-> TRUE, winner |-> CHOOSE p \in best_players : TRUE, scores |-> sc]

(***************************************************************************)
(* What player.move can produce in the numeric game                        *)
(*   Int    an int (value)                                                 *)
(*   Float  the number value + 0.5, which is not an int                    *)
(*   Other  an object that is not a number                                 *)
(*   Raise, Timeout as above                                               *)
(***************************************************************************)
KResp(k, v) == [kind |-> k, value |-> v]
Kir_Responses(n) ==
    {KResp(k, v) : k \in {"Int", "Float"}, v \in 0..(n + 1)}
    \cup {KResp(k, 0) : k \in {"Other", "Raise", "Timeout"}}

\* faulty variant of the checks: the value is not compared with 1 and n
Kir_check_move_no_range(resp, n) ==
    IF resp.kind = "Raise"
    THEN "error"
    ELSE IF resp.kind \in {"Timeout", "Other"}
    THEN "format"
    ELSE IF resp.kind # "Int"
    THEN "not int"
    ELSE "none"
\* the body of the try of _safe_move: "none" when the move is accepted,
\* otherwise the reason of the IncorrectMove: "error" the player raised,
\* "format" the '%d' of the logging line raised on None or on an object that
\* is not a number, "value" the comparison with 1 and len(self.players)
\* failed, "not int" the isinstance test after the inner try failed
Kir_check_move(resp, n) ==
    IF resp.kind = "Raise"
    THEN "error"
    ELSE IF resp.kind \in {"Timeout", "Other"}
    THEN "format"
    ELSE IF resp.kind = "Int" /\ (resp.value < 1 \/ resp.value > n)
    THEN "value"
    ELSE IF resp.kind = "Float" /\ (resp.value < 1 \/ resp.value >= n)
    THEN "value"
    ELSE IF resp.kind # "Int"
    THEN "not int"
    ELSE "none"

(***************************************************************************)
(* Game._safe_run and the board handed to the player (all three games)     *)
(***************************************************************************)
\* no abandoned call delivers a result while the engine waits
NoResult == [kind |-> "NoResult"]

\* what abandoned calls may deliver while a later call is awaited: nothing,
\* or the result r of one of them
LateResults(ab, r) == IF ab THEN {NoResult, r} ELSE {NoResult}

\* faulty variant of _safe_run: one result slot shared by all the calls, a
\* late result of an abandoned call is taken for the result of this call
Safe_run_shared_result(own, late) ==
    IF late.kind # "NoResult"
    THEN [move |-> late, from |-> "abandoned"]
    ELSE [move |-> own, from |-> "attempt"]
\* _safe_run: a new ThreadPool and a new async_result for every call; the
\* engine reads async_result.get(timeout) of this call only (own: the result
\* of the call, or kind "Timeout" when get raised TimeoutError and None is
\* returned); late, delivered to the async_result of an earlier call, is
\* not read
Safe_run(own, late) == [move |-> own, from |-> "attempt"]

\* faulty variant of create_copy_for_player: the live board itself
TTT_create_copy_for_player_alias(b) == [shared |-> TRUE, board |-> b]
\* create_copy_for_player: a new GameBoard with new row lists
TTT_create_copy_for_player(b) == [shared |-> FALSE, board |-> b]

Rev_create_copy_for_player(b) == [shared |-> FALSE, board |-> b]

\* faulty variant of the copy: the player is handed self.history itself
Kir_deepcopy_alias(h) == [shared |-> TRUE, board |-> h]
\* copy.deepcopy(self.history)
Kir_deepcopy(h) == [shared |-> FALSE, board |-> h]

\* the live object of the engine after the player has overwritten the object
\* it was handed with the content written (a player that does not write is
\* the case written = the content handed)
Player_writes(copy, live, written) == IF copy.shared THEN written ELSE live

\* what a player may write into its board (its history): its own mark in
\* every cell (the value 1 in every entry)
TTT_scribble == [r \in TTT_Idx |-> [c \in TTT_Idx |-> O]]
Rev_scribble == [r \in Rev_Idx |-> [c \in Rev_Idx |-> WHITE]]
Kir_scribble(h) == [i \in 1..Len(h) |-> [p \in 1..Len(h[i]) |-> 1]]

(***************************************************************************)
(* Game.__init__ / _init_game of the three games                           *)
(***************************************************************************)
Games == {"TicTacToe", "Reversi", "Kirzhanovsky"}

\* the players of a match: X and O (BLACK and WHITE), or 1..NumPlayers
Players == IF game = "Kirzhanovsky" THEN 1..NumPlayers ELSE {1, 2}

\* faulty variant of _init_game: O moves first
TTT_init_game_O_first ==
    /\ game = "TicTacToe"
    /\ board = TTT_GameBoard
    /\ turn_board = TTT_GameBoard
    /\ current_move = O
    /\ move_counter = 0
    /\ winner = None
    /\ pc = "while"
    /\ repertoire = {}
    /\ history = <<>> /\ move_number = 0 /\ moves = <<>> /\ scores = <<>>
TTT_init_game ==
    /\ game = "TicTacToe"
    /\ board = TTT_GameBoard
    /\ turn_board = TTT_GameBoard
    /\ current_move = X
    /\ move_counter = 0
    /\ winner = None
    /\ pc = "while"
    /\ repertoire = {}
    /\ history = <<>> /\ move_number = 0 /\ moves = <<>> /\ scores = <<>>

Rev_init_game ==
    /\ game = "Reversi"
    /\ board = Rev_GameBoard
    /\ turn_board = Rev_GameBoard
    /\ current_move = BLACK
    /\ move_counter = 0
    /\ winner = None
    /\ pc = "while"
    /\ repertoire \in Repertoires
    /\ history = <<>> /\ move_number = 0 /\ moves = <<>> /\ scores = <<>>

Kir_init_game ==
    /\ game = "Kirzhanovsky"
    /\ history = <<>>
    /\ move_number = 0
    /\ winner = None
    /\ pc = "while1"
    /\ moves = <<>> /\ scores = <<>>
    /\ repertoire = {}
    /\ board = <<>> /\ turn_board = <<>> /\ current_move = 0 /\ move_counter = 0

\* play() called on its own: no Battle object
NoBattle == [round_number |-> 0]

init_game ==
    /\ battle = NoBattle
    /\ try_index = 1
    /\ calls = 0
    /\ outcome = "init"
    /\ abandoned = FALSE
    /\ move_from = "none"
    /\ (TTT_init_game \/ Rev_init_game \/ Kir_init_game)

\* a match between bots, as the tournaments run them
Init ==
    /\ init_game
    /\ bots = Players

\* a match of one ConsolePlayer against bots, seated as the main blocks seat
\* it: Game(MyBot, ConsolePlayer), Game([ConsolePlayer, StupidBot])
InitConsole ==
    /\ init_game
    /\ bots = Players \ {IF game = "Kirzhanovsky" THEN 1 ELSE O}

(***************************************************************************)
(* TicTacToe/tictactoe.py : Game.play and Game._make_one_move              *)
(***************************************************************************)
\* faulty variant of the try block without the inner except: an error raised
\* by the player leaves _make_one_move
TTT_try_raise_uncaught(b, player_type, resp) ==
    IF resp.kind = "Raise"
    THEN Applied("Exception", "error", b)
    ELSE IF resp.kind \in {"Timeout", "Other"}
    THEN Applied("IncorrectMove", "not Move", b)
    ELSE TTT_apply_move(b, player_type, resp)
\* one pass through the try block: the call of the player and apply_move
TTT_try(b, player_type, resp) ==
    IF resp.kind = "Raise"
    THEN Applied("IncorrectMove", "error", b)
    ELSE IF resp.kind \in {"Timeout", "Other"}
    THEN Applied("IncorrectMove", "not Move", b)
    ELSE TTT_apply_move(b, player_type, resp)

\* play(): the while condition holds, _make_one_move starts
TTT_make_one_move ==
    /\ game = "TicTacToe" /\ pc = "while" /\ winner = None
    /\ move_counter' = IF current_move = X THEN move_counter + 1 ELSE move_counter
    /\ try_index' = 1
    /\ calls' = 0
    /\ turn_board' = board
    /\ pc' = "attempt"
    /\ outcome' = "solicit"
    /\ UNCHANGED <<game, bots, battle, board, current_move, winner, repertoire>>
    /\ UNCHANGED kirVars
    /\ UNCHANGED conVars

\* one iteration of the retry loop
TTT_attempt ==
    /\ game = "TicTacToe" /\ pc = "attempt"
    /\ try_index < INCORRECT_MOVE_TRIES_LIMIT
    /\ \E resp \in Awaited(Timeout_of(current_move \in bots),
                           Player_Responses(current_move \in bots, TTT_Responses)),
          late \in LateResults(abandoned, Resp("Move", 0, 0)) :
        LET board_copy == TTT_create_copy_for_player(board)
            live == Player_writes(board_copy, board, TTT_scribble)
            run == Safe_run(resp, late)
            a == TTT_try(live, current_move, run.move)
        IN  /\ calls' = calls + 1
            /\ board' = a.board
            /\ outcome' = IF a.exc = "none" THEN "applied" ELSE a.exc
            /\ current_move' = IF a.exc = "none" THEN Inverse(current_move) ELSE current_move
            /\ try_index' = IF a.exc = "IncorrectMove" THEN try_index + 1 ELSE try_index
            /\ pc' = IF a.exc = "none" THEN "check"
                     ELSE IF a.exc = "IncorrectMove" THEN "attempt"
                     ELSE "raised"
            /\ abandoned' = (abandoned \/ resp.kind = "Timeout")
            /\ move_from' = run.from
    /\ UNCHANGED <<game, bots, battle, move_counter, winner, repertoire, turn_board>>
    /\ UNCHANGED kirVars

\* faulty variant of the forfeit: the mover itself is declared winner
TTT_forfeit_winner_mover(mover) == mover
\* Winner(self.current_move.inverse().value)
TTT_forfeit_winner(mover) == Inverse(mover)

\* the else branch of the retry loop
TTT_forfeit ==
    /\ game = "TicTacToe" /\ pc = "attempt"
    /\ ~(try_index < INCORRECT_MOVE_TRIES_LIMIT)
    /\ winner' = TTT_forfeit_winner(current_move)
    /\ pc' = "check"
    /\ outcome' = "forfeit"
    /\ UNCHANGED <<game, bots, battle, board, current_move, move_counter, try_index, repertoire,
                   calls, turn_board>>
    /\ UNCHANGED kirVars
    /\ UNCHANGED conVars

\* faulty variant of _check_for_winner: the result of get_winner is stored
\* even when it is False
TTT_check_for_winner_overwrite ==
    /\ game = "TicTacToe" /\ pc = "check"
    /\ winner' = TTT_get_winner(board)
    /\ pc' = "while"
    /\ UNCHANGED <<game, bots, battle, board, current_move, move_counter, try_index, repertoire,
                   calls, turn_board, outcome>>
    /\ UNCHANGED kirVars
    /\ UNCHANGED conVars
\* _check_for_winner: winner = get_winner(); if winner: self.winner = winner
TTT_check_for_winner ==
    /\ game = "TicTacToe" /\ pc = "check"
    /\ winner' = IF TTT_get_winner(board) # None THEN TTT_get_winner(board) ELSE winner
    /\ pc' = "while"
    /\ UNCHANGED <<game, bots, battle, board, current_move, move_counter, try_index, repertoire,
                   calls, turn_board, outcome>>
    /\ UNCHANGED kirVars
    /\ UNCHANGED conVars

\* play(): _is_game_finished() holds, play returns self.winner
TTT_return ==
    /\ game = "TicTacToe" /\ pc = "while" /\ winner # None
    /\ pc' = "done"
    /\ UNCHANGED <<game, bots, battle, board, current_move, move_counter, winner, try_index,
                   repertoire, calls, turn_board, outcome>>
    /\ UNCHANGED kirVars
    /\ UNCHANGED conVars

(***************************************************************************)
(* Reversi/reversi.py : Game.play and Game._make_one_move                  *)
(***************************************************************************)
Rev_try(b, player_type, resp) ==
    IF resp.kind = "Raise"
    THEN Applied("IncorrectMove", "error", b)
    ELSE IF resp.kind \in {"Timeout", "Other"}
    THEN Applied("IncorrectMove", "not Move", b)
    ELSE Rev_apply_move(b, player_type, resp)

\* _make_one_move when the side to move has no move: the turn passes
Rev_pass ==
    /\ game = "Reversi" /\ pc = "while" /\ winner = None
    /\ ~Rev_has_player_correct_move(board, current_move)
    /\ move_counter' = IF current_move = BLACK THEN move_counter + 1 ELSE move_counter
    /\ current_move' = Inverse(current_move)
    /\ calls' = 0
    /\ turn_board' = board
    /\ pc' = "check"
    /\ outcome' = "pass"
    /\ UNCHANGED <<game, bots, battle, board, winner, try_index, repertoire>>
    /\ UNCHANGED kirVars
    /\ UNCHANGED conVars

\* _make_one_move when the side to move has a move: the retry loop starts
Rev_make_one_move ==
    /\ game = "Reversi" /\ pc = "while" /\ winner = None
    /\ Rev_has_player_correct_move(board, current_move)
    /\ move_counter' = IF current_move = BLACK THEN move_counter + 1 ELSE move_counter
    /\ try_index' = 1
    /\ calls' = 0
    /\ turn_board' = board
    /\ pc' = "attempt"
    /\ outcome' = "solicit"
    /\ UNCHANGED <<game, bots, battle, board, current_move, winner, repertoire>>
    /\ UNCHANGED kirVars
    /\ UNCHANGED conVars

Rev_attempt ==
    /\ game = "Reversi" /\ pc = "attempt"
    /\ try_index < INCORRECT_MOVE_TRIES_LIMIT
    /\ \E resp \in Awaited(Timeout_of(current_move \in bots),
                           Player_Responses(current_move \in bots,
                                            Rev_Responses(repertoire))),
          late \in LateResults(abandoned, Resp("Move", 3, 3)) :
        LET board_copy == Rev_create_copy_for_player(board)
            live == Player_writes(board_copy, board, Rev_scribble)
            run == Safe_run(resp, late)
            a == Rev_try(live, current_move, run.move)
        IN  /\ calls' = calls + 1
            /\ board' = a.board
            /\ outcome' = IF a.exc = "none" THEN "applied" ELSE a.exc
            /\ current_move' = IF a.exc = "none" THEN Inverse(current_move) ELSE current_move
            /\ try_index' = IF a.exc = "IncorrectMove" THEN try_index + 1 ELSE try_index
            /\ pc' = IF a.exc = "none" THEN "check"
                     ELSE IF a.exc = "IncorrectMove" THEN "attempt"
                     ELSE "raised"
            /\ abandoned' = (abandoned \/ resp.kind = "Timeout")
            /\ move_from' = run.from
    /\ UNCHANGED <<game, bots, battle, move_counter, winner, repertoire, turn_board>>
    /\ UNCHANGED kirVars

Rev_forfeit ==
    /\ game = "Reversi" /\ pc = "attempt"
    /\ ~(try_index < INCORRECT_MOVE_TRIES_LIMIT)
    /\ winner' = Inverse(current_move)
    /\ pc' = "check"
    /\ outcome' = "forfeit"
    /\ UNCHANGED <<game, bots, battle, board, current_move, move_counter, try_index, repertoire,
                   calls, turn_board>>
    /\ UNCHANGED kirVars
    /\ UNCHANGED conVars

Rev_check_for_winner ==
    /\ game = "Reversi" /\ pc = "check"
    /\ winner' = IF Rev_get_winner(board) # None THEN Rev_get_winner(board) ELSE winner
    /\ pc' = "while"
    /\ UNCHANGED <<game, bots, battle, board, current_move, move_counter, try_index, repertoire,
                   calls, turn_board, outcome>>
    /\ UNCHANGED kirVars
    /\ UNCHANGED conVars

Rev_return ==
    /\ game = "Reversi" /\ pc = "while" /\ winner # None
    /\ pc' = "done"
    /\ UNCHANGED <<game, bots, battle, board, current_move, move_counter, winner, try_index,
                   repertoire, calls, turn_board, outcome>>
    /\ UNCHANGED kirVars
    /\ UNCHANGED conVars

(***************************************************************************)
(* Kirzhanovsky/kirzhanovsky.py : Game.play, _make_one_move, _safe_move    *)
(***************************************************************************)
\* faulty variant of _is_game_finished: one round short
Kir_is_game_finished_early == move_number >= ROUNDS_IN_GAME - 1
Kir_is_game_finished == move_number = ROUNDS_IN_GAME

\* faulty variant of the comprehension: the round is appended one player short
Kir_safe_move_returns_short(h, v) ==
    LET done == Append(moves, v)
    IN  IF Len(done) >= NumPlayers - 1
        THEN /\ history' = Append(h, done)
             /\ moves' = <<>>
             /\ pc' = IF pc = "safe_move1" THEN "while1" ELSE "while2"
        ELSE /\ history' = h
             /\ moves' = done
             /\ pc' = pc
\* _safe_move returned v for the player Len(moves) + 1 while self.history is
\* h: the comprehension goes on with the next player, or ends and
\* history.append(moves) runs
Kir_safe_move_returns(h, v) ==
    LET done == Append(moves, v)
    IN  IF Len(done) = NumPlayers
        THEN /\ history' = Append(h, done)
             /\ moves' = <<>>
             /\ pc' = IF pc = "safe_move1" THEN "while1" ELSE "while2"
        ELSE /\ history' = h
             /\ moves' = done
             /\ pc' = pc

\* the first loop of play(): rounds until ROUNDS_IN_GAME
Kir_make_one_move ==
    /\ game = "Kirzhanovsky" /\ pc = "while1"
    /\ ~Kir_is_game_finished
    /\ move_number' = move_number + 1
    /\ moves' = <<>>
    /\ try_index' = 1
    /\ calls' = 0
    /\ pc' = "safe_move1"
    /\ outcome' = "solicit"
    /\ UNCHANGED <<game, bots, battle, winner, history, scores, repertoire>>
    /\ UNCHANGED altVars
    /\ UNCHANGED conVars

Kir_rounds_played ==
    /\ game = "Kirzhanovsky" /\ pc = "while1"
    /\ Kir_is_game_finished
    /\ pc' = "while2"
    /\ UNCHANGED <<game, bots, battle, winner, try_index, repertoire, calls, outcome>>
    /\ UNCHANGED kirVars
    /\ UNCHANGED altVars
    /\ UNCHANGED conVars

\* the second loop of play(): _find_winner(), then one more round or return
Kir_find_winner_step ==
    /\ game = "Kirzhanovsky" /\ pc = "while2"
    /\ LET fw == Kir_find_winner(history, NumPlayers)
       IN  /\ scores' = fw.scores
           /\ IF fw.found
              THEN /\ winner' = fw.winner
                   /\ pc' = "done"
                   /\ UNCHANGED <<move_number, moves, try_index, calls, outcome>>
              ELSE /\ move_number < MaxRounds
                   /\ winner' = winner
                   /\ move_number' = move_number + 1
                   /\ moves' = <<>>
                   /\ try_index' = 1
                   /\ calls' = 0
                   /\ pc' = "safe_move2"
                   /\ outcome' = "solicit"
    /\ UNCHANGED <<game, bots, battle, history, repertoire>>
    /\ UNCHANGED altVars
    /\ UNCHANGED conVars

\* one iteration of the retry loop of _safe_move; a returned move starts the
\* _safe_move of the next player, which has made no call yet
Kir_attempt ==
    /\ game = "Kirzhanovsky" /\ pc \in {"safe_move1", "safe_move2"}
    /\ try_index < INCORRECT_MOVE_TRIES_LIMIT
    /\ \E resp \in Awaited(Timeout_of((Len(moves) + 1) \in bots),
                           Player_Responses((Len(moves) + 1) \in bots,
                                            Kir_Responses(NumPlayers))),
          late \in LateResults(abandoned, KResp("Int", 1)) :
        LET history_copy == Kir_deepcopy(history)
            live == Player_writes(history_copy, history, Kir_scribble(history))
            run == Safe_run(resp, late)
        IN  /\ IF Kir_check_move(run.move, NumPlayers) = "none"
               THEN /\ Kir_safe_move_returns(live, run.move.value)
                    /\ try_index' = 1
                    /\ calls' = 0
                    /\ outcome' = "applied"
               ELSE /\ try_index' = try_index + 1
                    /\ calls' = (IF outcome = "forfeit" THEN 0 ELSE calls) + 1
                    /\ outcome' = "IncorrectMove"
                    /\ history' = live
                    /\ UNCHANGED <<moves, pc>>
            /\ abandoned' = (abandoned \/ resp.kind = "Timeout")
            /\ move_from' = run.from
    /\ UNCHANGED <<game, bots, battle, winner, move_number, scores, repertoire>>
    /\ UNCHANGED altVars

\* the else branch of the retry loop: return -1
Kir_forfeit ==
    /\ game = "Kirzhanovsky" /\ pc \in {"safe_move1", "safe_move2"}
    /\ ~(try_index < INCORRECT_MOVE_TRIES_LIMIT)
    /\ Kir_safe_move_returns(history, FORFEIT)
    /\ try_index' = 1
    /\ outcome' = "forfeit"
    /\ UNCHANGED <<game, bots, battle, winner, move_number, scores, repertoire, calls>>
    /\ UNCHANGED altVars
    /\ UNCHANGED conVars

\* the worker thread of a call that _safe_run gave up: the player goes on,
\* may write into the board (the history) it was handed, and returns into
\* the async_result of that call, which the engine no longer holds
Abandoned_call_returns ==
    /\ abandoned
    /\ \E still \in BOOLEAN : abandoned' = still
    /\ board' = IF game = "TicTacToe"
                THEN Player_writes(TTT_create_copy_for_player(board), board, TTT_scribble)
                ELSE IF game = "Reversi"
                THEN Player_writes(Rev_create_copy_for_player(board), board, Rev_scribble)
                ELSE board
    /\ history' = IF game = "Kirzhanovsky"
                  THEN Player_writes(Kir_deepcopy(history), history, Kir_scribble(history))
                  ELSE history
    /\ UNCHANGED <<game, bots, battle, pc, current_move, move_counter, winner, try_index,
                   move_number, moves, scores, repertoire, calls, turn_board,
                   outcome, move_from>>

Next ==
    \/ TTT_make_one_move \/ TTT_attempt \/ TTT_forfeit
    \/ TTT_check_for_winner \/ TTT_return
    \/ Rev_pass \/ Rev_make_one_move \/ Rev_attempt \/ Rev_forfeit
    \/ Rev_check_for_winner \/ Rev_return
    \/ Kir_make_one_move \/ Kir_rounds_played \/ Kir_find_winner_step
    \/ Kir_attempt \/ Kir_forfeit
    \/ Abandoned_call_returns

Spec == Init /\ [][Next]_vars

SpecConsole == InitConsole /\ [][Next]_vars

(***************************************************************************)
(* play() of the numeric game without a bound on the rounds.  _find_winner *)
(* reads the history only through the sums of the awards, and              *)
(* _is_game_finished is not asked again in the second loop, so a tie-break *)
(* round that awards nothing leaves the engine where it was before that    *)
(* round: the history is kept up to such rounds, and a match that goes on  *)
(* for ever with them is a cycle.  Every step that is enabled is taken in  *)
(* the end: the engine runs, and every call of a player returns or times   *)
(* out.                                                                    *)
(***************************************************************************)
Kir_void_round(round) ==
    Kir_first_unique(round, Kir_sorted(round), 1) = <<0, 0>>

Kir_void_round_forgotten ==
    /\ game = "Kirzhanovsky" /\ pc = "while2"
    /\ move_number > ROUNDS_IN_GAME
    /\ Len(history) = move_number
    /\ Kir_void_round(history[Len(history)])
    /\ history' = SubSeq(history, 1, Len(history) - 1)
    /\ move_number' = move_number - 1
    /\ UNCHANGED <<game, bots, battle, pc, winner, try_index, moves, scores, repertoire, calls,
                   outcome>>
    /\ UNCHANGED altVars
    /\ UNCHANGED conVars

InitLive == Init /\ game = "Kirzhanovsky"

NextLive ==
    \/ Kir_make_one_move \/ Kir_rounds_played \/ Kir_find_winner_step
    \/ Kir_attempt \/ Kir_forfeit
    \/ Abandoned_call_returns
    \/ Kir_void_round_forgotten

SpecLive == InitLive /\ [][NextLive]_vars /\ WF_vars(NextLive)

(***************************************************************************)
(* TicTacToe/battle.py and Kirzhanovsky/battle.py : Battle.fight.          *)
(* game.play() is one step here: it ends with one of the results that      *)
(* play() of Spec ends with.  battle holds the fields of the Battle object *)
(* under their names, player indices 0-based as in the source, and three   *)
(* records of what happened: games (the games that play() has finished),   *)
(* played (the pairs of the round, in the order of their games) and        *)
(* game_scores (per player, the sum of the scores computed by the finished *)
(* numeric Games).                                                         *)
(***************************************************************************)
Battle_size == IF game = "Kirzhanovsky" THEN NumPlayers ELSE BattlePlayers
Battle_Idx == 0..(Battle_size - 1)

\* Battle.__init__
Battle_init ==
    [scores |-> [p \in Battle_Idx |-> 0],
     round_number |-> 0,
     player1_idx |-> 0,
     player2_idx |-> 0,
     games |-> 0,
     played |-> <<>>,
     game_scores |-> [p \in Battle_Idx |-> 0]]

\* what play() of the 3x3 game returns
TTT_play_results == {X, O, DRAW}
\* how game.play() ends: it returns self.winner, or an error of apply_move
\* leaves it
TTT_play_outcomes ==
    {[returned |-> TRUE, winner |-> w] : w \in TTT_play_results}
    \cup {[returned |-> FALSE, winner |-> None]}

\* faulty variant of the points: a draw counts for the first player only
TTT_Battle_points_draw_first(sc, player1_idx, player2_idx, w) ==
    IF w = X THEN [sc EXCEPT ![player1_idx] = @ + 2]
    ELSE IF w = O THEN [sc EXCEPT ![player2_idx] = @ + 2]
    ELSE IF w = DRAW THEN [sc EXCEPT ![player1_idx] = @ + 1]
    ELSE sc
\* the if / elif chain of _play_game on game.winner
TTT_Battle_points(sc, player1_idx, player2_idx, w) ==
    IF w = X THEN [sc EXCEPT ![player1_idx] = @ + 2]
    ELSE IF w = O THEN [sc EXCEPT ![player2_idx] = @ + 2]
    ELSE IF w = DRAW THEN [sc EXCEPT ![player1_idx] = @ + 1,
                                     ![player2_idx] = @ + 1]
    ELSE sc

\* the step of the nested for loops of play_round to the next pair of
\* indices
Battle_next_pair(b) ==
    IF b.player2_idx + 1 < Battle_size
    THEN [b EXCEPT !.player2_idx = @ + 1]
    ELSE [b EXCEPT !.player1_idx = @ + 1, !.player2_idx = 0]

\* the variables of a single play() that the steps of Battle leave alone
battleFrame ==
    <<game, board, current_move, move_counter, try_index, move_number, moves,
      scores, repertoire, bots, calls, turn_board, outcome, abandoned, move_from>>

TTT_Battle_play_round ==
    /\ game = "TicTacToe" /\ pc = "fight"
    /\ battle.round_number < BattleRounds
    /\ battle' = [battle EXCEPT !.round_number = @ + 1,
                                 !.player1_idx = 0, !.player2_idx = 0,
                                 !.played = <<>>]
    /\ pc' = "pairs"
    /\ UNCHANGED <<winner, history>>
    /\ UNCHANGED battleFrame

\* if player1_idx == player2_idx: continue
TTT_Battle_continue ==
    /\ game = "TicTacToe" /\ pc = "pairs"
    /\ battle.player1_idx < Battle_size
    /\ battle.player1_idx = battle.player2_idx
    /\ battle' = Battle_next_pair(battle)
    /\ UNCHANGED <<pc, winner, history>>
    /\ UNCHANGED battleFrame

TTT_Battle_play_game ==
    /\ game = "TicTacToe" /\ pc = "pairs"
    /\ battle.player1_idx < Battle_size
    /\ battle.player1_idx # battle.player2_idx
    /\ \E out \in TTT_play_outcomes :
        IF out.returned
        THEN /\ winner' = out.winner
             /\ battle' = Battle_next_pair(
                    [battle EXCEPT
                        !.scores = TTT_Battle_points(@, battle.player1_idx,
                                                     battle.player2_idx, out.winner),
                        !.games = @ + 1,
                        !.played = Append(@, <<battle.player1_idx,
                                               battle.player2_idx>>)])
             /\ pc' = pc
        ELSE /\ winner' = None
             /\ battle' = battle
             /\ pc' = "raised"
    /\ UNCHANGED history
    /\ UNCHANGED battleFrame

\* the for loops of play_round are through
TTT_Battle_round_played ==
    /\ game = "TicTacToe" /\ pc = "pairs"
    /\ battle.player1_idx = Battle_size
    /\ pc' = "fight"
    /\ UNCHANGED <<battle, winner, history>>
    /\ UNCHANGED battleFrame

\* the attributes the methods of the numeric Game assign to self
Kir_Game_attributes == {"players", "history", "move_number", "winner"}

\* the histories play() of the numeric game returns with after
\* ROUNDS_IN_GAME rounds: the ones in which _find_winner finds a winner
Kir_play_results ==
    {h \in [1..ROUNDS_IN_GAME -> [1..NumPlayers -> {FORFEIT} \cup 1..NumPlayers]] :
        Kir_find_winner(h, NumPlayers).found}

Kir_Battle_play_round ==
    /\ game = "Kirzhanovsky" /\ pc = "fight"
    /\ battle.round_number < BattleRounds
    /\ battle' = [battle EXCEPT !.round_number = @ + 1]
    /\ pc' = "game"
    /\ UNCHANGED <<winner, history>>
    /\ UNCHANGED battleFrame

\* _play_game of the numeric tournament: game.play(), then the loop over
\* game.scores
Kir_Battle_play_game ==
    /\ game = "Kirzhanovsky" /\ pc = "game"
    /\ \E h \in Kir_play_results :
        LET fw == Kir_find_winner(h, NumPlayers)
            finished == [battle EXCEPT
                            !.games = @ + 1,
                            !.game_scores = [p \in Battle_Idx |->
                                                @[p] + fw.scores[p + 1]]]
        IN  /\ history' = h
            /\ winner' = fw.winner
            /\ IF "scores" \in Kir_Game_attributes
               THEN /\ battle' = [finished EXCEPT
                                     !.scores = [p \in Battle_Idx |->
                                                    @[p] + fw.scores[p + 1]]]
                    /\ pc' = "fight"
               ELSE /\ battle' = finished
                    /\ pc' = "raised"
    /\ UNCHANGED battleFrame

\* for _ in range(rounds) of fight is through
Battle_fight_returns ==
    /\ pc = "fight"
    /\ battle.round_number = BattleRounds
    /\ pc' = "done"
    /\ UNCHANGED <<battle, winner, history>>
    /\ UNCHANGED battleFrame

InitBattle ==
    /\ game \in {"TicTacToe", "Kirzhanovsky"}
    /\ battle = Battle_init
    /\ pc = "fight"
    /\ bots = Players
    /\ winner = None
    /\ board = <<>> /\ turn_board = <<>> /\ current_move = 0 /\ move_counter = 0
    /\ history = <<>> /\ move_number = 0 /\ moves = <<>> /\ scores = <<>>
    /\ repertoire = {}
    /\ try_index = 1 /\ calls = 0 /\ outcome = "init"
    /\ abandoned = FALSE /\ move_from = "none"

NextBattle ==
    \/ TTT_Battle_play_round \/ TTT_Battle_continue \/ TTT_Battle_play_game
    \/ TTT_Battle_round_played
    \/ Kir_Battle_play_round \/ Kir_Battle_play_game
    \/ Battle_fight_returns

SpecBattle == InitBattle /\ [][NextBattle]_vars

(***************************************************************************)
(* The pure functions on drawn inputs: get_winner of the 3x3 game on every *)
(* board, _find_winner on every one-round history of FnPlayers players     *)
(* with entries in -1, 1..FnMaxValue                                       *)
(***************************************************************************)
FnValues == {FORFEIT} \cup 1..FnMaxValue

InitFn ==
    /\ pc = "fn"
    /\ try_index = 1 /\ calls = 0 /\ outcome = "init"
    /\ abandoned = FALSE /\ move_from = "none"
    /\ winner = None /\ repertoire = {} /\ bots = {} /\ battle = NoBattle
    /\ current_move = 0 /\ move_counter = 0 /\ move_number = 0
    /\ moves = <<>> /\ scores = <<>>
    /\ \/ /\ game = "TicTacToe"
          /\ board \in [TTT_Idx -> [TTT_Idx -> {EMPTY, X, O}]]
          /\ turn_board = board
          /\ history = <<>>
       \/ /\ game = "Kirzhanovsky"
          /\ history \in {<<round>> : round \in [1..FnPlayers -> FnValues]}
          /\ board = <<>> /\ turn_board = <<>>

Fn_get_winner ==
    /\ game = "TicTacToe" /\ pc = "fn"
    /\ winner' = TTT_get_winner(board)
    /\ pc' = "fn_done"
    /\ UNCHANGED <<game, bots, battle, board, current_move, move_counter, try_index, repertoire,
                   calls, turn_board, outcome>>
    /\ UNCHANGED kirVars
    /\ UNCHANGED conVars

Fn_find_winner ==
    /\ game = "Kirzhanovsky" /\ pc = "fn"
    /\ LET fw == Kir_find_winner(history, FnPlayers)
       IN  /\ scores' = fw.scores
           /\ winner' = fw.winner
    /\ pc' = "fn_done"
    /\ UNCHANGED <<game, bots, battle, history, move_number, moves, try_index, repertoire,
                   calls, outcome>>
    /\ UNCHANGED altVars
    /\ UNCHANGED conVars

NextFn == Fn_get_winner \/ Fn_find_winner

SpecFn == InitFn /\ [][NextFn]_vars

(***************************************************************************)
(* Properties                                                              *)
(***************************************************************************)
Alternating == {"TicTacToe", "Reversi"}
Failures == {"IncorrectMove", "TypeError", "ValueError"}

\* C1: a player whose every response of a turn (or round) is invalid is
\* solicited exactly INCORRECT_MOVE_TRIES_LIMIT = 5 times before the forfeit
\* is declared for that turn.
C1_ForfeitAfterLimitCalls ==
    outcome = "forfeit" => calls = INCORRECT_MOVE_TRIES_LIMIT

\* C2: in the alternating games, a forfeit ends the match in that turn: the
\* winner is, and stays, the opponent of the mover, the board is the board
\* the turn started with, no further turn starts, and play() returns that
\* opponent.
C2_ForfeitEndsMatch ==
    /\ [](game \in Alternating /\ outcome = "forfeit" =>
            /\ winner = 3 - current_move
            /\ board = turn_board
            /\ pc \in {"check", "while", "done"})
    /\ [][(game \in Alternating /\ outcome = "forfeit") =>
            (outcome' = "forfeit" /\ pc' \in {pc, "while", "done"}
             /\ winner' = winner /\ board' = board)]_vars

C2_Witness ==
    /\ game = "TicTacToe" /\ outcome = "forfeit" /\ pc = "done"
    /\ current_move = O /\ winner = X
    /\ board # TTT_GameBoard

\* what a round awards when only the values in 1..n of the players that did
\* not forfeit are counted
C3_award_without_forfeits(round, n) ==
    LET valid == {p \in 1..n : round[p] # FORFEIT}
        once == {p \in valid : \A q \in valid : q # p => round[q] # round[p]}
    IN  [p \in 1..n |->
            IF p \in once /\ \A q \in once : round[p] <= round[q]
            THEN round[p] ELSE 0]

\* C3: in the numeric game a player that forfeits a round contributes no
\* value: its score is not changed by the round, the round is awarded as it
\* would be among the other players' values alone, and the forfeit does not
\* end the match.
C3_ForfeitContributesNothing ==
    game = "Kirzhanovsky" =>
        /\ \A i \in 1..Len(history) :
              (\E p \in 1..NumPlayers : history[i][p] = FORFEIT) =>
                  Kir_round_scores(history[i], NumPlayers)
                      = C3_award_without_forfeits(history[i], NumPlayers)
        /\ (outcome = "forfeit" => pc # "done" /\ winner = None)

\* the k-th cell from (row, column) in direction d
C4_cell(row, column, d, k) == <<row + k * d[1], column + k * d[2]>>
C4_on_board(rc) == rc[1] \in Rev_Idx /\ rc[2] \in Rev_Idx
\* the captures of one direction as the rule states them: the maximal run
\* of opponent cells next to the candidate, when a cell of the mover closes it
C4_captures_in_direction(b, row, column, d, colour) ==
    LET opp(k) == /\ C4_on_board(C4_cell(row, column, d, k))
                  /\ b[C4_cell(row, column, d, k)[1]][C4_cell(row, column, d, k)[2]] = 3 - colour
        run == {k \in 1..Rev_size : \A j \in 1..k : opp(j)}
        n == Cardinality(run)
        closing == C4_cell(row, column, d, n + 1)
    IN  IF n >= 1 /\ C4_on_board(closing) /\ b[closing[1]][closing[2]] = colour
        THEN {C4_cell(row, column, d, k) : k \in run}
        ELSE {}
C4_captures(b, row, column, colour) ==
    UNION {C4_captures_in_direction(b, row, column, Rev_directions[i], colour) :
              i \in DOMAIN Rev_directions}

\* C4: in the reversible-capture game, for every empty candidate cell and
\* colour, the captured cells are the union over the 8 directions of the
\* maximal run of opponent cells next to the candidate when a cell of the
\* mover follows it; a scan that meets an empty cell or the edge first
\* contributes nothing and no empty cell is ever captured.
C4_CapturedCells ==
    game = "Reversi" =>
        \A row \in Rev_Idx : \A column \in Rev_Idx : \A colour \in {BLACK, WHITE} :
            board[row][column] = EMPTY =>
                LET flipped_cells == Rev_get_flipped_cells_for_move(board, row, column, colour)
                    flipped == {flipped_cells[i] : i \in DOMAIN flipped_cells}
                IN  /\ flipped = C4_captures(board, row, column, colour)
                    /\ \A rc \in flipped : board[rc[1]][rc[2]] # EMPTY

\* C5: in all three games, whenever validating and applying a proposed move
\* fails for any reason, the live board (the history in the numeric game) is
\* identical to the one before the attempt.
C5_FailedMoveLeavesBoard ==
    [][(pc \in {"attempt", "safe_move1", "safe_move2"} /\ calls' # calls
            /\ outcome' \in Failures)
        => (board' = board /\ history' = history)]_vars

\* C6: in all three games no response of a player makes play() end with an
\* uncaught exception: every response is either applied or counted as one
\* failed attempt.
C6_PlayNeverRaises ==
    /\ pc # "raised"
    /\ outcome \notin {"TypeError", "ValueError"}

C7_lines ==
    {{<<r, c>> : c \in TTT_Idx} : r \in TTT_Idx}
    \cup {{<<r, c>> : r \in TTT_Idx} : c \in TTT_Idx}
    \cup {{<<0, 0>>, <<1, 1>>, <<2, 2>>}, {<<0, 2>>, <<1, 1>>, <<2, 0>>}}
C7_has_line(b, owner) ==
    \E line \in C7_lines : \A rc \in line : b[rc[1]][rc[2]] = owner

\* C7: in the 3x3 game, on every board on which some row, column or diagonal
\* holds three marks of the same owner, get_winner returns a win for that
\* owner, also when the board is completely filled.
C7_LineOwnerWins ==
    game = "TicTacToe" =>
        \A owner \in {X, O} :
            C7_has_line(board, owner) => TTT_get_winner(board) = owner

C8_no_line(b) == ~C7_has_line(b, X) /\ ~C7_has_line(b, O)
C8_empty_cells(b) == {rc \in TTT_Idx \X TTT_Idx : b[rc[1]][rc[2]] = EMPTY}

\* C8: in the 3x3 game, on every board without a uniform non-empty line,
\* get_winner returns DRAW when the board is completely filled and reports
\* no outcome when at least one cell is empty.
C8_NoLineDrawOrContinue ==
    (game = "TicTacToe" /\ C8_no_line(board)) =>
        /\ TTT_get_winner(board) = IF C8_empty_cells(board) = {} THEN DRAW ELSE None
        /\ (pc = "fn_done" =>
               winner = IF C8_empty_cells(board) = {} THEN DRAW ELSE None)

C8_Witness ==
    /\ game = "TicTacToe" /\ pc = "fn_done"
    /\ C8_no_line(board) /\ C8_empty_cells(board) = {}
    /\ winner = DRAW

\* the award of a round as the rule states it, from the entries alone: the
\* holder of the lowest entry that occurs exactly once gains that entry
C9_award(round) ==
    LET n == Len(round)
        once == {v \in {round[p] : p \in 1..n} :
                    Cardinality({p \in 1..n : round[p] = v}) = 1}
    IN  [p \in 1..n |->
            IF round[p] \in once /\ \A v \in once : round[p] <= v
            THEN round[p] ELSE 0]

RECURSIVE C10_total(_, _, _)
C10_total(h, k, p) ==
    IF k = 0 THEN 0 ELSE C10_total(h, k - 1, p) + C9_award(h[k])[p]
C10_tie(h, k) ==
    \E p \in 1..NumPlayers : \E q \in 1..NumPlayers :
        /\ p # q
        /\ C10_total(h, k, p) = C10_total(h, k, q)
        /\ \A r \in 1..NumPlayers : C10_total(h, k, r) <= C10_total(h, k, p)

\* C10: in the numeric game play() never returns before ROUNDS_IN_GAME
\* rounds have been played; when it returns, the winner is the single player
\* whose cumulative score is strictly greater than every other player's;
\* while the highest cumulative score is shared exactly one more round is
\* played before the scores are compared again.
C10_ReturnsStrictLeader ==
    game = "Kirzhanovsky" =>
        /\ (pc = "done" =>
               /\ move_number >= ROUNDS_IN_GAME
               /\ Len(history) = move_number
               /\ winner \in 1..NumPlayers
               /\ \A q \in 1..NumPlayers :
                      q # winner =>
                          C10_total(history, Len(history), winner)
                              > C10_total(history, Len(history), q))
        /\ (pc = "safe_move2" =>
               /\ Len(history) = move_number - 1
               /\ C10_tie(history, Len(history)))
        /\ (pc = "while2" =>
               /\ Len(history) = move_number
               /\ \A k \in ROUNDS_IN_GAME..(Len(history) - 1) : C10_tie(history, k))
        /\ (pc \in {"while2", "safe_move2", "done"} => move_number >= ROUNDS_IN_GAME)
        /\ (pc \in {"while1", "safe_move1"} => winner = None)

C10_Witness ==
    /\ game = "Kirzhanovsky" /\ pc = "done"
    /\ move_number = ROUNDS_IN_GAME + 1
    /\ winner \in 1..NumPlayers

\* C11: the value of a call that _safe_run gave up on a timeout is never
\* used: whenever it arrives (during a later attempt, in a later turn, after
\* the match) it is not the move of any attempt and changes nothing of the
\* engine; in the alternating games a step of the engine issues, and waits
\* for, at most one call.
C11_AbandonedResultNeverUsed ==
    /\ [](move_from # "abandoned")
    /\ [][(abandoned /\ ~abandoned') =>
            (board' = board /\ history' = history /\ winner' = winner
             /\ current_move' = current_move /\ moves' = moves /\ pc' = pc
             /\ try_index' = try_index)]_vars
    /\ [][(game \in Alternating) => (calls' \in {0, calls, calls + 1})]_vars

C11_Witness ==
    /\ game \in Alternating /\ abandoned
    /\ outcome = "applied" /\ move_from = "attempt" /\ calls >= 2

C12_attempting == pc \in {"attempt", "safe_move1", "safe_move2"}
C12_agent_failures == {"Timeout", "Raise"}

\* C12: in all three games a timeout and an error raised by the player are
\* failed attempts of the same kind as an invalid move: each adds one to
\* try_index and to the calls of the turn, leaves the turn with the same
\* player, and the forfeit comes when try_index reaches the limit, whatever
\* the kinds of the failures were.
C12_FailuresShareBudget ==
    /\ [](game = "TicTacToe" /\ pc = "attempt" =>
            \A resp \in TTT_Responses : resp.kind \in C12_agent_failures =>
                /\ TTT_try(board, current_move, resp).exc = "IncorrectMove"
                /\ TTT_try(board, current_move, resp).exc
                     = TTT_try(board, current_move, Resp("Move", 0 - 1, 0)).exc)
    /\ [](game = "Reversi" /\ pc = "attempt" =>
            \A resp \in Rev_Responses(repertoire) : resp.kind \in C12_agent_failures =>
                /\ Rev_try(board, current_move, resp).exc = "IncorrectMove"
                /\ Rev_try(board, current_move, resp).exc
                     = Rev_try(board, current_move, Resp("Move", 0 - 1, 0)).exc)
    /\ [](game = "Kirzhanovsky" /\ C12_attempting =>
            \A resp \in Kir_Responses(NumPlayers) : resp.kind \in C12_agent_failures =>
                /\ Kir_check_move(resp, NumPlayers) # "none"
                /\ Kir_check_move(KResp("Int", 0), NumPlayers) # "none")
    /\ [][(~abandoned /\ abandoned') =>
            (outcome' = "IncorrectMove" /\ try_index' = try_index + 1)]_vars
    /\ [][(outcome' = "IncorrectMove"
            /\ (calls' # calls \/ try_index' # try_index)) =>
            (/\ try_index' = try_index + 1
             /\ pc' = pc /\ current_move' = current_move /\ moves' = moves
             /\ calls' = IF outcome \in {"applied", "forfeit"} THEN 1 ELSE calls + 1)]_vars
    /\ [](C12_attempting /\ outcome \in {"solicit", "IncorrectMove"} =>
            calls = try_index - 1)
    /\ [](outcome = "forfeit" => calls = INCORRECT_MOVE_TRIES_LIMIT - 1)

C12_Witness ==
    /\ outcome = "forfeit" /\ abandoned /\ game = "Kirzhanovsky"

\* C13: what a player writes into the board (the history) it was handed,
\* during its call or after the engine gave the call up, changes neither the
\* board nor the history of the engine: a failed attempt and the return of
\* an abandoned call leave both as they were, and an applied move of the 3x3
\* game changes the one cell it names.
C13_changed_cells ==
    {rc \in TTT_Idx \X TTT_Idx : board'[rc[1]][rc[2]] # board[rc[1]][rc[2]]}
C13_CopiesAreIndependent ==
    /\ [][(outcome' = "IncorrectMove") => (board' = board /\ history' = history)]_vars
    /\ [][(UNCHANGED <<pc, calls, try_index, moves, outcome>>) =>
            (board' = board /\ history' = history)]_vars
    /\ [][(game = "TicTacToe" /\ pc = "attempt" /\ outcome' = "applied") =>
            Cardinality(C13_changed_cells) = 1]_vars
    /\ [][(game = "Kirzhanovsky" /\ history' # history) =>
            (history' = Append(history, history'[Len(history')]))]_vars

C13_Witness ==
    /\ game = "TicTacToe" /\ outcome = "IncorrectMove" /\ calls >= 2
    /\ abandoned /\ board # TTT_GameBoard /\ board = turn_board

\* C14: in the alternating games the winner field, once set by a forfeit or
\* by the terminal check, keeps its value (the terminal check after a
\* forfeit included), no player is asked for a move and the board stays as
\* it is; play() returns one of the two sides or DRAW.
C14_WinnerIsFinal ==
    /\ [][(game \in Alternating /\ winner # None) =>
            (/\ winner' = winner /\ board' = board
             /\ calls' = calls /\ try_index' = try_index
             /\ pc' \in {pc, "while", "done"})]_vars
    /\ [](game \in Alternating /\ winner # None => pc \in {"check", "while", "done"})
    /\ [](game \in Alternating /\ pc = "done" => winner \in {1, 2, DRAW})

C14_Witness ==
    /\ game = "Reversi" /\ pc = "done" /\ outcome = "forfeit"
    /\ winner = 3 - current_move /\ board # Rev_GameBoard

\* the side colour has a legal move on b: an empty cell whose placement
\* captures at least one cell
C15_has_legal_move(b, colour) ==
    \E row \in Rev_Idx : \E column \in Rev_Idx :
        b[row][column] = EMPTY /\ C4_captures(b, row, column, colour) # {}

\* C15: in the reversible-capture game, when the side to move has no legal
\* move the turn passes to the other side with the board unchanged and
\* without a call of the player; a player is asked for a move only on a
\* board where it has a legal move.
C15_PassWithoutLegalMove ==
    /\ [](game = "Reversi" /\ pc = "attempt" =>
            C15_has_legal_move(board, current_move))
    /\ [][(game = "Reversi" /\ pc = "while" /\ winner = None /\ pc' # pc
            /\ ~C15_has_legal_move(board, current_move)) =>
            (/\ current_move' = 3 - current_move /\ board' = board
             /\ calls' = 0 /\ outcome' = "pass" /\ pc' = "check")]_vars

C16_count(b, colour) ==
    Cardinality({rc \in Rev_Idx \X Rev_Idx : b[rc[1]][rc[2]] = colour})

\* C16: in the reversible-capture game get_winner reports an outcome exactly
\* when neither colour has a legal move; the outcome is the colour with
\* strictly more cells, DRAW when the counts are equal.
C16_GetWinnerIffNoLegalMove ==
    game = "Reversi" /\ pc = "check" =>
        LET over == /\ ~C15_has_legal_move(board, BLACK)
                    /\ ~C15_has_legal_move(board, WHITE)
            black_count == C16_count(board, BLACK)
            white_count == C16_count(board, WHITE)
        IN  /\ (Rev_get_winner(board) # None) = over
            /\ over => Rev_get_winner(board)
                         = IF black_count > white_count THEN BLACK
                           ELSE IF white_count > black_count THEN WHITE
                           ELSE DRAW

C17_cells == Rev_Idx \X Rev_Idx

\* C17: in the reversible-capture game a successful apply_move changes the
\* placed cell from empty to the colour of the mover and every captured cell
\* (the runs of opponent cells closed by a cell of the mover, in the 8
\* directions) from the opponent's colour to the mover's; every other cell
\* keeps its value.
C17_SuccessfulMoveFrame ==
    [][(game = "Reversi" /\ pc = "attempt" /\ outcome' = "applied") =>
        (LET changed == {rc \in C17_cells :
                            board'[rc[1]][rc[2]] # board[rc[1]][rc[2]]}
             placed == {rc \in changed : board[rc[1]][rc[2]] = EMPTY}
         IN  /\ Cardinality(placed) = 1
             /\ \A rc \in placed :
                 /\ board'[rc[1]][rc[2]] = current_move
                 /\ changed \ placed = C4_captures(board, rc[1], rc[2], current_move)
             /\ changed \ placed # {}
             /\ \A rc \in changed \ placed :
                 /\ board[rc[1]][rc[2]] = 3 - current_move
                 /\ board'[rc[1]][rc[2]] = current_move)]_vars

C17_Witness ==
    /\ game = "Reversi" /\ outcome = "applied" /\ pc = "check"
    /\ Cardinality({rc \in C17_cells :
                       turn_board[rc[1]][rc[2]] # board[rc[1]][rc[2]]}) >= 4

\* C18: in the alternating games a failed attempt leaves the side to move,
\* the turn and its counter as they were and the next attempt is asked for
\* the same turn; the side to move is inverted by the step that applies a
\* move and by a pass of the reversible-capture game, and by no other step.
C18_SideInvertedOncePerMove ==
    [][(game \in Alternating) =>
        (LET applied == pc = "attempt" /\ outcome' = "applied"
             passed == pc = "while" /\ pc' = "check"
             failed == pc = "attempt" /\ outcome' = "IncorrectMove" /\ calls' # calls
         IN  /\ current_move' = IF applied \/ passed THEN 3 - current_move
                                ELSE current_move
             /\ passed => game = "Reversi"
             /\ failed => /\ pc' = "attempt"
                          /\ move_counter' = move_counter
                          /\ turn_board' = turn_board
                          /\ try_index' = try_index + 1)]_vars

C18_Witness ==
    /\ game = "TicTacToe" /\ outcome = "applied" /\ calls = 4
    /\ current_move = X /\ move_counter = 1

\* C19: in the alternating games every cell always holds EMPTY, 1 or 2, and
\* no step turns an owned cell into an empty one; in the 3x3 game no step
\* changes the owner of an owned cell.
C19_OwnedCellsStayOwned ==
    /\ [](game \in Alternating =>
            \A r \in DOMAIN board : \A c \in DOMAIN board[r] :
                board[r][c] \in {EMPTY, 1, 2})
    /\ [][(game \in Alternating) =>
            (\A r \in DOMAIN board : \A c \in DOMAIN board[r] :
                board[r][c] # EMPTY =>
                    /\ board'[r][c] # EMPTY
                    /\ game = "TicTacToe" => board'[r][c] = board[r][c])]_vars

C19_Witness ==
    /\ game = "Reversi" /\ outcome = "applied"
    /\ \E rc \in C17_cells :
        /\ turn_board[rc[1]][rc[2]] = WHITE
        /\ board[rc[1]][rc[2]] = BLACK

\* the reason the claimed order of the checks gives: type, range, vacancy,
\* legality
C20_TTT_expected(b, resp) ==
    IF resp.kind # "Move" THEN "not Move"
    ELSE IF resp.row \notin TTT_Idx \/ resp.column \notin TTT_Idx THEN "coordinates"
    ELSE IF b[resp.row][resp.column] # EMPTY THEN "occupied"
    ELSE ""
C20_Rev_expected(b, colour, resp) ==
    IF resp.kind # "Move" THEN "not Move"
    ELSE IF resp.row \notin Rev_Idx \/ resp.column \notin Rev_Idx THEN "coordinates"
    ELSE IF b[resp.row][resp.column] # EMPTY THEN "occupied"
    ELSE IF ~Rev_is_valid_move(b, resp.row, resp.column, colour) THEN "no flips"
    ELSE ""
C20_Kir_expected(resp, n) ==
    IF resp.kind # "Int" THEN "not int"
    ELSE IF resp.value < 1 \/ resp.value > n THEN "value"
    ELSE "none"
C20_returned == {"Move", "Int", "Float", "Other"}

\* C20: in all three games a returned move is checked for its type, then
\* its range, then the vacancy of the cell, then the legality, and the
\* reason of the rejection is the one of the first of these checks that
\* fails.
C20_ReasonIsFirstFailedCheck ==
    /\ game = "TicTacToe" /\ pc = "attempt" =>
        \A resp \in TTT_Responses : resp.kind \in C20_returned =>
            LET a == TTT_try(board, current_move, resp)
            IN  /\ a.exc \in {"none", "IncorrectMove"} =>
                       a.reason = C20_TTT_expected(board, resp)
                /\ C20_TTT_expected(board, resp) # "" => a.exc = "IncorrectMove"
    /\ game = "Reversi" /\ pc = "attempt" =>
        \A resp \in Rev_Responses(repertoire) : resp.kind \in C20_returned =>
            LET a == Rev_try(board, current_move, resp)
            IN  /\ a.exc \in {"none", "IncorrectMove"} =>
                       a.reason = C20_Rev_expected(board, current_move, resp)
                /\ C20_Rev_expected(board, current_move, resp) # "" =>
                       a.exc = "IncorrectMove"
    /\ game = "Kirzhanovsky" /\ pc \in {"safe_move1", "safe_move2"} =>
        \A resp \in Kir_Responses(NumPlayers) : resp.kind \in C20_returned =>
            Kir_check_move(resp, NumPlayers) = C20_Kir_expected(resp, NumPlayers)

\* the same statement for the two alternating games alone
C20_AlternatingOrder ==
    game \in Alternating => C20_ReasonIsFirstFailedCheck

\* the rounds of a history that hold one entry for every player
C21_complete(h) == \A i \in 1..Len(h) : Len(h[i]) = NumPlayers

\* C21: in the numeric game every round asks the players one after the
\* other in player order, each exactly once; the answers are appended to the
\* history as one list with one entry per player, and _find_winner runs only
\* between rounds, on a history whose every round has an entry of every
\* player.
C21_RoundHasEveryPlayer ==
    /\ [](game = "Kirzhanovsky" =>
            /\ C21_complete(history)
            /\ Len(moves) < NumPlayers
            /\ pc \notin {"safe_move1", "safe_move2"} => moves = <<>>)
    /\ [][game = "Kirzhanovsky" =>
            /\ (moves' # moves /\ moves' # <<>>) =>
                   (/\ pc \in {"safe_move1", "safe_move2"}
                    /\ Len(moves') = Len(moves) + 1
                    /\ SubSeq(moves', 1, Len(moves)) = moves
                    /\ Len(history') = Len(history))
            /\ (Len(history') # Len(history)) =>
                   (/\ pc \in {"safe_move1", "safe_move2"}
                    /\ Len(moves) = NumPlayers - 1
                    /\ Len(history') = Len(history) + 1
                    /\ SubSeq(history'[Len(history')], 1, NumPlayers - 1) = moves
                    /\ moves' = <<>>)
            /\ (pc = "while2" /\ pc' # "while2") =>
                   (/\ moves = <<>>
                    /\ C21_complete(history)
                    /\ Len(history) = move_number
                    /\ Len(scores') = NumPlayers)]_vars

\* a match was scored whose first round holds a forfeit of the last player
C21_Witness ==
    /\ game = "Kirzhanovsky" /\ pc = "done"
    /\ Len(scores) = NumPlayers
    /\ Len(history) >= ROUNDS_IN_GAME
    /\ history[1][NumPlayers] = FORFEIT

\* h1 is a prefix of h2
C22_prefix(h1, h2) ==
    /\ Len(h1) <= Len(h2)
    /\ SubSeq(h2, 1, Len(h1)) = h1
C22_soliciting == pc \in {"safe_move1", "safe_move2"}

\* C22 as stated: in every state of a match of the numeric game the length
\* of the history equals move_number, and the history is append-only.
C22_LengthIsMoveNumber ==
    /\ [](game = "Kirzhanovsky" => Len(history) = move_number)
    /\ [][game = "Kirzhanovsky" => C22_prefix(history, history')]_vars

\* C22, amended: the length of the history is the number of completed
\* rounds, which is move_number between rounds and move_number - 1 while the
\* players of a round are asked (move_number is raised when the round
\* starts, the round is appended when it ends); a recorded round is never
\* changed or removed by a later round, by _find_winner or by a player
\* writing into the copy it was handed.
C22_HistoryAppendOnly ==
    /\ [](game = "Kirzhanovsky" =>
            Len(history) = IF C22_soliciting THEN move_number - 1
                           ELSE move_number)
    /\ [][game = "Kirzhanovsky" => C22_prefix(history, history')]_vars

\* a tie-break round is being asked after _find_winner has scored a recorded
\* round that holds a value other than 1, and a player that timed out still
\* holds its copy of the history
C22_Witness ==
    /\ game = "Kirzhanovsky" /\ pc = "safe_move2"
    /\ Len(scores) = NumPlayers
    /\ Len(history) = move_number - 1 /\ Len(history) >= 1
    /\ \E p \in 1..NumPlayers : history[1][p] # 1
    /\ abandoned

\* the owners get_winner can meet while it scans the lines
C23_line_owners(lines) ==
    {TTT_is_cells_full_by_player(lines[i]) : i \in 1..Len(lines)} \ {None}

\* C23: on every board play() reaches in the 3x3 game at most one player
\* owns a complete row, column or diagonal, so whatever line get_winner
\* meets first, a line owner it reports is that one player.
C23_OneLineOwner ==
    game = "TicTacToe" =>
        LET lines == TTT_lines(board)
            owners == C23_line_owners(lines)
            first == TTT_first_winner(lines, 1)
        IN  /\ Cardinality(owners) <= 1
            /\ first # None => owners = {first}
            /\ winner \in {X, O} /\ outcome # "forfeit" => owners = {winner}

\* O has won by a line
C23_Witness ==
    /\ game = "TicTacToe" /\ pc = "done"
    /\ winner = O /\ outcome # "forfeit"
    /\ C23_line_owners(TTT_lines(board)) = {O}

\* the match is tied after the last round that is followed, and that round
\* awarded a point: what comes next is not followed
C24_rounds_exhausted ==
    /\ pc = "while2" /\ move_number = MaxRounds
    /\ Len(history) = move_number
    /\ ~Kir_void_round(history[Len(history)])
    /\ ~Kir_find_winner(history, NumPlayers).found

\* C24: in the numeric game play() returns in the end, whatever the players
\* answer, when every call of a player returns or times out.
C24_PlayReturns ==
    <>(pc = "done" \/ C24_rounds_exhausted)

\* the moves applied so far: every applied move fills one cell
C25_occupied(b, idx) ==
    Cardinality({rc \in idx \X idx : b[rc[1]][rc[2]] # EMPTY})
C25_applied_moves ==
    IF game = "TicTacToe" THEN C25_occupied(board, TTT_Idx)
    ELSE C25_occupied(board, Rev_Idx) - 4
C25_turns == {"init", "solicit", "IncorrectMove", "applied", "pass", "forfeit"}

\* C25: in the 3x3 game and the reversible-capture game play() ends by
\* returning, whatever the players answer: it never ends in another way,
\* every turn is an applied move, a pass or a forfeit (after failed
\* attempts), and at most 9 (60) moves are applied.
C25_PlayReturnsWithinBound ==
    game \in Alternating =>
        /\ pc # "raised"
        /\ outcome \in C25_turns
        /\ C25_applied_moves <= IF game = "TicTacToe" THEN 9 ELSE 60
        /\ pc = "done" => winner # None

\* the player the engine calls in this state
C26_caller == IF game \in Alternating THEN current_move ELSE Len(moves) + 1
C26_calling ==
    /\ pc \in {"attempt", "safe_move1", "safe_move2"}
    /\ try_index < INCORRECT_MOVE_TRIES_LIMIT

\* C26: in all three games a call of a player that is a Bot is given the
\* budget BOT_MOVE_TIMEOUT = 3 and can time out; a call of another player
\* (the ConsolePlayer) is given no budget and never times out: no call is
\* given up by _safe_run while the player called is not a Bot.
C26_TimeoutOnlyForBots ==
    /\ [](C26_calling =>
            /\ C26_caller \in bots =>
                   /\ Timeout_of(C26_caller \in bots) = 3
                   /\ \E r \in Awaited(Timeout_of(C26_caller \in bots),
                                        NonMoveResponses) : r.kind = "Timeout"
            /\ C26_caller \notin bots =>
                   /\ Timeout_of(C26_caller \in bots) = None
                   /\ \A r \in Awaited(Timeout_of(C26_caller \in bots),
                                        NonMoveResponses) : r.kind # "Timeout")
    /\ [][(~abandoned /\ abandoned') => (C26_caller \in bots)]_vars

\* the ConsolePlayer is called again after an answer that was rejected,
\* while a call of the bot it plays against has timed out
C26_Witness ==
    /\ C26_calling /\ C26_caller \notin bots
    /\ calls >= 1 /\ outcome = "IncorrectMove"
    /\ abandoned

\* the answers that are not a valid move on b, by the rules of the game
C27_TTT_invalid(b, resp) ==
    \/ resp.kind # "Move"
    \/ resp.row \notin TTT_Idx \/ resp.column \notin TTT_Idx
    \/ b[resp.row][resp.column] # EMPTY
C27_Rev_invalid(b, colour, resp) ==
    \/ resp.kind # "Move"
    \/ resp.row \notin Rev_Idx \/ resp.column \notin Rev_Idx
    \/ b[resp.row][resp.column] # EMPTY
    \/ C4_captures(b, resp.row, resp.column, colour) = {}
C27_Kir_invalid(resp, n) ==
    resp.kind # "Int" \/ resp.value < 1 \/ resp.value > n
\* the board was b, the move is validated, and validated again on the board
\* the first validation left: rejected twice, same reason, same board
C27_repeats(b, first, second) ==
    /\ first.exc = "IncorrectMove" /\ second.exc = "IncorrectMove"
    /\ second.reason = first.reason
    /\ first.board = b /\ second.board = b

\* C27: in all three games an invalid move that is validated twice, with no
\* successful move in between, is rejected both times with the same reason,
\* and the board is the same after both.
C27_RevalidationRepeats ==
    /\ game = "TicTacToe" /\ pc = "attempt" =>
        \A resp \in TTT_Responses : C27_TTT_invalid(board, resp) =>
            LET first == TTT_try(board, current_move, resp)
                second == TTT_try(first.board, current_move, resp)
            IN  C27_repeats(board, first, second)
    /\ game = "Reversi" /\ pc = "attempt" =>
        \A resp \in Rev_Responses(repertoire) :
            C27_Rev_invalid(board, current_move, resp) =>
                LET first == Rev_try(board, current_move, resp)
                    second == Rev_try(first.board, current_move, resp)
                IN  C27_repeats(board, first, second)
    /\ game = "Kirzhanovsky" /\ pc \in {"safe_move1", "safe_move2"} =>
        \A resp \in Kir_Responses(NumPlayers) :
            C27_Kir_invalid(resp, NumPlayers) =>
                LET first == Kir_check_move(resp, NumPlayers)
                    second == Kir_check_move(resp, NumPlayers)
                IN  first # "none" /\ second = first

\* the same for the moves the engine does reject: a move rejected once is
\* rejected again with the same reason, and the board is the same
C27_RejectionRepeats ==
    /\ game = "TicTacToe" /\ pc = "attempt" =>
        \A resp \in TTT_Responses :
            LET first == TTT_try(board, current_move, resp)
                second == TTT_try(first.board, current_move, resp)
            IN  first.exc = "IncorrectMove" => C27_repeats(board, first, second)
    /\ game = "Reversi" /\ pc = "attempt" =>
        \A resp \in Rev_Responses(repertoire) :
            LET first == Rev_try(board, current_move, resp)
                second == Rev_try(first.board, current_move, resp)
            IN  first.exc = "IncorrectMove" => C27_repeats(board, first, second)

\* what a round may hold for a player
C28_entries == 1..NumPlayers \cup {FORFEIT}

\* C28: in the numeric game every entry of every recorded round, and of the
\* round being collected, is an integer of 1..N or the forfeit marker -1: a
\* value outside 1..N that a player returns is not recorded.
C28_EntriesInRange ==
    game = "Kirzhanovsky" =>
        /\ \A i \in 1..Len(history) : \A p \in 1..Len(history[i]) :
               history[i][p] \in C28_entries
        /\ \A p \in 1..Len(moves) : moves[p] \in C28_entries

\* play() has returned; the first round holds a forfeit of the first player
\* and a value of the second
C28_Witness ==
    /\ game = "Kirzhanovsky" /\ pc = "done"
    /\ history[1][1] = FORFEIT
    /\ history[1][2] \in 1..NumPlayers

C29_count(b, cell) ==
    Cardinality({rc \in Rev_Idx \X Rev_Idx : b[rc[1]][rc[2]] = cell})
C29_same_counts(b1, b2) ==
    \A cell \in {EMPTY, BLACK, WHITE} : C29_count(b1, cell) = C29_count(b2, cell)
\* the counts after a move of mover that was applied to the board before
C29_applied_counts(before, after, mover) ==
    LET k == Cardinality({rc \in Rev_Idx \X Rev_Idx :
                             /\ before[rc[1]][rc[2]] = Inverse(mover)
                             /\ after[rc[1]][rc[2]] = mover})
    IN  /\ k >= 1
        /\ C29_count(after, EMPTY) = C29_count(before, EMPTY) - 1
        /\ C29_count(after, mover) = C29_count(before, mover) + 1 + k
        /\ C29_count(after, Inverse(mover)) = C29_count(before, Inverse(mover)) - k

\* C29: in the reversible-capture game a move that is applied captures
\* k >= 1 cells, fills one empty cell, raises the count of the mover by 1 + k
\* and lowers the count of the opponent by k; a pass and an attempt that
\* fails change no count.
C29_CountsFollowCaptures ==
    game = "Reversi" =>
        /\ outcome = "applied" =>
               C29_applied_counts(turn_board, board, Inverse(current_move))
        /\ outcome \in {"pass", "forfeit", "IncorrectMove", "TypeError", "ValueError"} =>
               C29_same_counts(turn_board, board)

\* the same without the attempts that end in the ValueError of a capture
\* across an empty cell
C29_CountsOfCompletedSteps ==
    game = "Reversi" =>
        /\ outcome = "applied" =>
               C29_applied_counts(turn_board, board, Inverse(current_move))
        /\ outcome \in {"pass", "forfeit", "IncorrectMove", "TypeError"} =>
               C29_same_counts(turn_board, board)

C30_count(b, cell) ==
    Cardinality({rc \in TTT_Idx \X TTT_Idx : b[rc[1]][rc[2]] = cell})

\* C30: in the 3x3 game the number of X cells minus the number of O cells
\* is 0 or 1 in every state of play(); while the match is undecided X is to
\* move exactly when the two counts are equal; the match starts with an
\* empty board and X to move.
C30_XMovesFirstAndAlternates ==
    game = "TicTacToe" =>
        LET diff == C30_count(board, X) - C30_count(board, O)
        IN  /\ diff \in {0, 1}
            /\ winner = None => (current_move = X <=> diff = 0)
            /\ outcome = "init" =>
                   /\ C30_count(board, EMPTY) = TTT_size * TTT_size
                   /\ current_move = X

\* O is asked for its second move
C30_Witness ==
    /\ game = "TicTacToe" /\ pc = "attempt" /\ winner = None
    /\ current_move = O
    /\ C30_count(board, X) = 2 /\ C30_count(board, O) = 1

\* sc[0] + ... + sc[k - 1]
RECURSIVE C31_sum(_, _)
C31_sum(sc, k) == IF k = 0 THEN 0 ELSE C31_sum(sc, k - 1) + sc[k - 1]
\* the ordered pairs of distinct players
C31_pairs == {ij \in Battle_Idx \X Battle_Idx : ij[1] # ij[2]}
C31_games_per_round == Battle_size * (Battle_size - 1)

\* C31: in the tournament of the 3x3 game a round plays one game for every
\* ordered pair of distinct players and no other game; a game that play()
\* finishes adds 2 points to its winner, or 1 point to each of its two
\* players on a draw, and nothing else; so the scores add up to twice the
\* number of finished games, which is 2 * r * n * (n - 1) after r rounds.
C31_TournamentSum ==
    /\ [](game = "TicTacToe" =>
            /\ C31_sum(battle.scores, Battle_size) = 2 * battle.games
            /\ {battle.played[k] : k \in 1..Len(battle.played)} \subseteq C31_pairs
            /\ Cardinality({battle.played[k] : k \in 1..Len(battle.played)})
                   = Len(battle.played)
            /\ battle.round_number >= 1 =>
                   battle.games = (battle.round_number - 1) * C31_games_per_round
                                      + Len(battle.played)
            /\ (pc \in {"fight", "done"} /\ battle.round_number >= 1) =>
                   /\ {battle.played[k] : k \in 1..Len(battle.played)} = C31_pairs
                   /\ C31_sum(battle.scores, Battle_size)
                          = 2 * battle.round_number * C31_games_per_round)
    /\ [][(game = "TicTacToe" /\ battle'.games # battle.games) =>
            (LET i == battle.player1_idx
                 j == battle.player2_idx
                 gain == [p \in Battle_Idx |-> battle'.scores[p] - battle.scores[p]]
             IN  /\ battle'.games = battle.games + 1
                 /\ i # j
                 /\ \A p \in Battle_Idx \ {i, j} : gain[p] = 0
                 /\ winner' = X => (gain[i] = 2 /\ gain[j] = 0)
                 /\ winner' = O => (gain[i] = 0 /\ gain[j] = 2)
                 /\ winner' = DRAW => (gain[i] = 1 /\ gain[j] = 1)
                 /\ winner' \in {X, O, DRAW})]_vars

\* fight has returned after BattleRounds rounds in which the first player
\* drew a game and every player won one
C31_Witness ==
    /\ game = "TicTacToe" /\ pc = "done"
    /\ battle.round_number = BattleRounds
    /\ battle.scores[0] % 2 = 1
    /\ \A p \in Battle_Idx : battle.scores[p] >= 2
    /\ C31_sum(battle.scores, Battle_size) = 2 * BattleRounds * C31_games_per_round

\* the results the tournaments draw for game.play() are the results play()
\* ends with in Spec: a Winner of the 3x3 game, and in the numeric game a
\* history in which _find_winner finds the winner
C31_PlayResultsOfSpec ==
    /\ (game = "TicTacToe" /\ pc = "done") => winner \in TTT_play_results
    /\ (game = "Kirzhanovsky" /\ pc = "done" /\ Len(history) = ROUNDS_IN_GAME) =>
           /\ history \in Kir_play_results
           /\ scores = Kir_find_winner(history, NumPlayers).scores

\* C32: in the numeric tournament, after each finished game the tournament
\* totals are the per-player sums of the scores the players reached in the
\* games finished so far (Game._find_winner computes them; Battle._play_game
\* is to add them to the totals)
C32_finished_games == game = "Kirzhanovsky" /\ pc # "game" /\ battle.games > 0

C32_TotalsAreGameScoreSums ==
    C32_finished_games =>
        \A p \in Battle_Idx : battle.scores[p] = battle.game_scores[p]
====
